---- MODULE Spec2Model ----
(***************************************************************************)
(* A model of the two tools of Lexmancer's training-data pipeline:         *)
(*   Tools/fix_training_data.py          (the repair tool)                 *)
(*   Tools/analyze_training_diversity.py (the analysis tool)               *)
(*                                                                         *)
(* Text.  The scanners read the text one character at a time and look only *)
(* at '{' and '}'.  A text is modelled as a sequence of pieces: the piece  *)
(* "{" , the piece "}" , or a run of characters holding no brace.  A run   *)
(* changes neither depth nor in_object and is appended to current_obj      *)
(* character by character, so scanning it in one step is scanning its      *)
(* characters one after the other.                                         *)
(*                                                                         *)
(* JSON values.  A value is a record [t, a, c]: t its type ("obj", "arr",  *)
(* "str", "num", "bool", "null", and "pair" for a member of an object),    *)
(* a its atom (the string, the number's text, a member's key) and c its    *)
(* children (an object's members, an array's items, a member's value).     *)
(***************************************************************************)
EXTENDS Integers, Sequences, FiniteSets, TLC

----------------------------------------------------------------------------
(* Bounds of the model.                                                    *)

\* the number of fragments a raw corpus is put together from
MaxFrags == 2

\* the number of records of a collection that is chosen record by record
MaxRecs == 2

\* the longest on_hit chain of a script node
MaxChain == 3

----------------------------------------------------------------------------
(* JSON values, as json.loads builds them.                                 *)

JStr(s) == [t |-> "str", a |-> s, c |-> <<>>]

JNum(s) == [t |-> "num", a |-> s, c |-> <<>>]

JNull == [t |-> "null", a |-> "null", c |-> <<>>]

JArr(items) == [t |-> "arr", a |-> "", c |-> items]

JPair(k, v) == [t |-> "pair", a |-> k, c |-> <<v>>]

JObj(members) == [t |-> "obj", a |-> "", c |-> members]

\* the strings the model's texts hold, with their lengths
StrLen(s) ==
  CASE s = "" -> 0
    [] s = "x" -> 1
    [] s = "y" -> 1
    [] s = "d" -> 1
    [] s = "c" -> 1
    [] s = "ab" -> 2
    [] s = "primitives" -> 10
    [] OTHER -> 4

\* a dict keeps one entry per key: a repeated key overwrites the value in place
DictPut(members, k, v) ==
  IF \E i \in 1..Len(members) : members[i].a = k
    THEN [i \in 1..Len(members) |->
            IF members[i].a = k THEN JPair(k, v) ELSE members[i]]
    ELSE Append(members, JPair(k, v))

\* Python's  key in d  for a dict d
HasKey(obj, k) == \E i \in 1..Len(obj.c) : obj.c[i].a = k

\* Python's  d[key]  for a dict d that has the key
GetKey(obj, k) == (obj.c[CHOOSE i \in 1..Len(obj.c) : obj.c[i].a = k]).c[1]

----------------------------------------------------------------------------
(* The pieces of a text and the JSON grammar over them.                    *)

\* pieces that are a whole member  "key": value  whose value holds no brace
PairTokens ==
  { "name=x", "name=y", "description=d", "color=c", "cooldown=3",
    "primitives=[fire,water]", "primitives=[fire,fire]", "primitives=[fire]",
    "script=[]" }

\* pieces that are a key and its colon, the value following
KeyTokens == { "ability:", "effects:" }

\* pieces that are a scalar literal
ScalarTokens == { "5" }

\* pieces that are a whole member whose value is lists nested deeper than
\* the decoder recurses: json.loads raises RecursionError on reaching it
DeepTokens == { "extra=[[[...]]]" }

PairOf(tok) ==
  CASE tok = "name=x" -> JPair("name", JStr("x"))
    [] tok = "name=y" -> JPair("name", JStr("y"))
    [] tok = "description=d" -> JPair("description", JStr("d"))
    [] tok = "color=c" -> JPair("color", JStr("c"))
    [] tok = "cooldown=3" -> JPair("cooldown", JNum("3"))
    [] tok = "primitives=[fire,water]" ->
         JPair("primitives", JArr(<<JStr("fire"), JStr("water")>>))
    [] tok = "primitives=[fire,fire]" ->
         JPair("primitives", JArr(<<JStr("fire"), JStr("fire")>>))
    [] tok = "primitives=[fire]" -> JPair("primitives", JArr(<<JStr("fire")>>))
    [] tok = "script=[]" -> JPair("script", JArr(<<>>))

KeyOf(tok) ==
  CASE tok = "ability:" -> "ability"
    [] tok = "effects:" -> "effects"

\* what json.loads ends with: a value (ok, exc = ""), JSONDecodeError, or
\* the RecursionError of the decoder
ParseFail == [ok |-> FALSE, v |-> JNull, i |-> 0, exc |-> "JSONDecodeError"]

ParseRaise == [ok |-> FALSE, v |-> JNull, i |-> 0, exc |-> "RecursionError"]

ParseOk(v, i) == [ok |-> TRUE, v |-> v, i |-> i, exc |-> ""]

RECURSIVE ParseValue(_, _)
RECURSIVE ParseMembers(_, _, _)
RECURSIVE ParseItems(_, _, _)

\* the members of an object from piece i on, acc the members read so far
ParseMembers(s, i, acc) ==
  LET tail(j, got) ==
        IF j > Len(s) THEN ParseFail
        ELSE IF s[j] = "}" THEN ParseOk(JObj(got), j + 1)
        ELSE IF s[j] = "," THEN ParseMembers(s, j + 1, got)
        ELSE ParseFail
  IN IF i > Len(s) THEN ParseFail
     ELSE IF s[i] \in PairTokens
       THEN tail(i + 1, DictPut(acc, PairOf(s[i]).a, PairOf(s[i]).c[1]))
     ELSE IF s[i] \in DeepTokens THEN ParseRaise
     ELSE IF s[i] \in KeyTokens
       THEN LET r == ParseValue(s, i + 1)
            IN IF r.ok THEN tail(r.i, DictPut(acc, KeyOf(s[i]), r.v))
               ELSE r
     ELSE ParseFail

\* the items of an array from piece i on
ParseItems(s, i, acc) ==
  LET r == ParseValue(s, i)
  IN IF ~r.ok THEN r
     ELSE IF r.i > Len(s) THEN ParseFail
     ELSE IF s[r.i] = "]" THEN ParseOk(JArr(Append(acc, r.v)), r.i + 1)
     ELSE IF s[r.i] = "," THEN ParseItems(s, r.i + 1, Append(acc, r.v))
     ELSE ParseFail

ParseValue(s, i) ==
  IF i > Len(s) THEN ParseFail
  ELSE IF s[i] = "{"
    THEN IF i + 1 <= Len(s) /\ s[i + 1] = "}"
           THEN ParseOk(JObj(<<>>), i + 2)
           ELSE ParseMembers(s, i + 1, <<>>)
  ELSE IF s[i] = "["
    THEN IF i + 1 <= Len(s) /\ s[i + 1] = "]"
           THEN ParseOk(JArr(<<>>), i + 2)
           ELSE ParseItems(s, i + 1, <<>>)
  ELSE IF s[i] \in ScalarTokens THEN ParseOk(JNum(s[i]), i + 1)
  ELSE ParseFail

\* json.loads: one value and nothing after it, or an exception (ok = FALSE)
json_loads(s) ==
  LET r == ParseValue(s, 1)
  IN IF ~r.ok \/ r.i = Len(s) + 1 THEN r ELSE ParseFail

----------------------------------------------------------------------------
(* Python's operators on JSON values.  "raise" stands for a TypeError.     *)

\* x in v
PyContains(v, x) ==
  CASE v.t = "obj" -> IF HasKey(v, x) THEN "yes" ELSE "no"
    [] v.t = "arr" ->
         IF \E i \in 1..Len(v.c) : v.c[i].t = "str" /\ v.c[i].a = x
           THEN "yes" ELSE "no"
    [] v.t = "str" -> IF v.a = x THEN "yes" ELSE "no"
    [] OTHER -> "raise"

\* whether len(v) is defined
HasLen(v) == v.t \in {"obj", "arr", "str"}

\* len(v)
PyLen(v) == IF v.t = "str" THEN StrLen(v.a) ELSE Len(v.c)

\* bool(v)
Truthy(v) ==
  CASE v.t \in {"obj", "arr"} -> v.c # <<>>
    [] v.t = "str" -> v.a # ""
    [] v.t = "num" -> v.a # "0"
    [] v.t = "bool" -> v.a = "true"
    [] OTHER -> FALSE

----------------------------------------------------------------------------
(* The raw corpus: fragments, one after the other.                         *)

EffectsOk == <<"effects:", "[", "{", "script=[]", "}", "]">>

RecordText(nameTok, abilityToks) ==
  <<"{", nameTok, ",", "description=d", ",", "color=c", ",", "ability:">>
    \o abilityToks \o <<"}">>

FragmentNames ==
  { "good_x", "good_y", "loose", "no_ability", "bad_span", "truncated",
    "close", "noise", "ability_num", "effects_num", "no_cooldown",
    "one_primitive", "deep" }

FragmentText(f) ==
  CASE f = "good_x" ->
         RecordText("name=x", <<"{", "primitives=[fire,water]", ",">>
                      \o EffectsOk \o <<",", "cooldown=3", "}">>)
    [] f = "good_y" ->
         RecordText("name=y", <<"{", "primitives=[fire,fire]", ",">>
                      \o EffectsOk \o <<",", "cooldown=3", "}">>)
    [] f = "loose" -> <<"{", "name=x", ",", "ability:", "{", "}", "}">>
    [] f = "no_ability" -> <<"{", "name=x", "}">>
    [] f = "bad_span" -> <<"{", ",", "}">>
    [] f = "truncated" -> <<"{", "name=x", ",">>
    [] f = "close" -> <<"}">>
    [] f = "noise" -> <<",">>
    [] f = "ability_num" -> RecordText("name=x", <<"5">>)
    [] f = "effects_num" ->
         RecordText("name=y", <<"{", "primitives=[fire,water]", ",",
                      "effects:", "5", ",", "cooldown=3", "}">>)
    [] f = "no_cooldown" ->
         RecordText("name=x", <<"{", "primitives=[fire,water]", ",">>
                      \o EffectsOk \o <<"}">>)
    [] f = "one_primitive" ->
         RecordText("name=y", <<"{", "primitives=[fire]", ",">>
                      \o EffectsOk \o <<",", "cooldown=3", "}">>)
    [] f = "deep" -> <<"{", "extra=[[[...]]]", "}">>

RECURSIVE Concat(_)
Concat(fs) ==
  IF fs = <<>> THEN <<>> ELSE FragmentText(Head(fs)) \o Concat(Tail(fs))

Corpora == UNION { [1..n -> FragmentNames] : n \in 0..MaxFrags }

----------------------------------------------------------------------------
(* fix_training_data.py                                                    *)

VARIABLES
  frags,          \* the fragments the raw corpus is made of
  text,           \* the raw corpus
  pos,            \* the scan's place in the text
  depth, current_obj, in_object, objects,   \* the scanner's locals
  spans,          \* what was handed to json.loads so far
  pc,             \* where the tool is
  raised,         \* the exception that ended the tool, "" when none
  vi,             \* the validation loop's place in objects
  valid_objects, invalid_count,
  exit_status,    \* the repair tool's exit status, -1 while it runs
  output,         \* the content of ability_data_training_fixed.json
  written,        \* whether ability_data_training_fixed.json exists
  candidate,      \* the argument of a call of validate_ability
  verdict,        \* what the call returned
  data,           \* the analysis tool's records
  elem_analysis, action_analysis, status_analysis, complexity_analysis,
  scores, overall_score,  \* the results generate_report computes
  ret,            \* what the analysis tool's main returned, -1 before
  count_values,   \* counts.values() of a call of shannon_entropy, in order
  count_index,    \* the place of shannon_entropy's loop in count_values
  count_total,    \* shannon_entropy's total
  entropy_bits,   \* shannon_entropy's entropy, a float
  evenness        \* the evenness computed from it, a float

scanVars ==
  <<frags, text, pos, depth, current_obj, in_object, objects, spans>>

repairVars == <<vi, valid_objects, invalid_count, exit_status>>

fileVars == <<output, written>>

validateVars == <<candidate, verdict>>

entropyVars == <<count_values, count_index, count_total, entropy_bits, evenness>>

analysisVars ==
  <<data, elem_analysis, action_analysis, status_analysis,
    complexity_analysis, scores, overall_score, ret>>

vars ==
  <<scanVars, pc, raised, repairVars, fileVars, validateVars, analysisVars,
    entropyVars>>

\* the loose gate of line 41
LooseGate(obj) ==
  PyContains(obj, "name") = "yes" /\ PyContains(obj, "ability") = "yes"

\* One turn of the loop of extract_json_objects on character ch, from the
\* locals st = [depth, current_obj, in_object, objects, spans].  exc is the
\* exception of json.loads that except json.JSONDecodeError does not catch.
ExtractStep(st, ch) ==
  LET opens == ch = "{" /\ st.depth = 0
      d1 == IF ch = "{" THEN st.depth + 1 ELSE st.depth
      io1 == IF opens THEN TRUE ELSE st.in_object
      co1 == IF opens THEN <<>> ELSE st.current_obj
      co2 == IF io1 THEN Append(co1, ch) ELSE co1
      d2 == IF ch = "}" THEN d1 - 1 ELSE d1
      emits == ch = "}" /\ d2 = 0 /\ io1
      r == json_loads(co2)
  IN [ depth |-> d2,
       current_obj |-> co2,
       in_object |-> IF emits THEN FALSE ELSE io1,
       objects |-> IF emits /\ r.ok /\ LooseGate(r.v)
                     THEN Append(st.objects, r.v) ELSE st.objects,
       spans |-> IF emits THEN Append(st.spans, co2) ELSE st.spans,
       exc |-> IF emits /\ ~r.ok /\ r.exc # "JSONDecodeError"
                 THEN r.exc ELSE "" ]

\* the loop over s, left when json.loads raises what is not caught
RECURSIVE ExtractFrom(_, _)
ExtractFrom(st, s) ==
  IF s = <<>> \/ st.exc # "" THEN st
  ELSE ExtractFrom(ExtractStep(st, Head(s)), Tail(s))

ExtractInit ==
  [depth |-> 0, current_obj |-> <<>>, in_object |-> FALSE,
   objects |-> <<>>, spans |-> <<>>, exc |-> ""]

\* extract_json_objects(text): the objects returned and the exception raised
extract_json_objects(s) ==
  LET st == ExtractFrom(ExtractInit, s)
  IN [objects |-> IF st.exc = "" THEN st.objects ELSE <<>>, exc |-> st.exc]

Verdict(ok, msg) == [raised |-> FALSE, ok |-> ok, msg |-> msg]

VerdictRaise == [raised |-> TRUE, ok |-> FALSE, msg |-> "TypeError"]

validate_ability(ability_obj) ==
  LET missing(f) == PyContains(ability_obj, f) # "yes"
      ability == GetKey(ability_obj, "ability")
      hasPrims == PyContains(ability, "primitives")
  IN IF missing("name") THEN Verdict(FALSE, "Missing field: name")
     ELSE IF missing("description")
       THEN Verdict(FALSE, "Missing field: description")
     ELSE IF missing("color") THEN Verdict(FALSE, "Missing field: color")
     ELSE IF missing("ability") THEN Verdict(FALSE, "Missing field: ability")
     ELSE IF hasPrims = "raise" THEN VerdictRaise
     ELSE IF hasPrims = "no"
       THEN Verdict(FALSE, "Invalid primitives (must have exactly 2)")
     \* 'primitives' is in ability: ability['primitives'] needs a dict
     ELSE IF ability.t # "obj" THEN VerdictRaise
     ELSE IF ~HasLen(GetKey(ability, "primitives")) THEN VerdictRaise
     ELSE IF PyLen(GetKey(ability, "primitives")) # 2
       THEN Verdict(FALSE, "Invalid primitives (must have exactly 2)")
     ELSE IF ~HasKey(ability, "effects") \/ ~Truthy(GetKey(ability, "effects"))
       THEN Verdict(FALSE, "Missing effects")
     ELSE IF ~HasKey(ability, "cooldown")
       THEN Verdict(FALSE, "Missing cooldown")
     ELSE Verdict(TRUE, "OK")

----------------------------------------------------------------------------
(* Element pairs.                                                          *)

\* the 8-symbol element alphabet, in the order sorted() gives its names
ElementNames ==
  <<"air", "earth", "fire", "ice", "light", "shadow", "water", "wind">>

Rank(s) == CHOOSE i \in 1..Len(ElementNames) : ElementNames[i] = s

RECURSIVE SortedInsert(_, _)
SortedInsert(sorted, s) ==
  IF sorted = <<>> THEN <<s>>
  ELSE IF Rank(s) < Rank(Head(sorted)) THEN <<s>> \o sorted
  ELSE <<Head(sorted)>> \o SortedInsert(Tail(sorted), s)

RECURSIVE SortedNames(_)
SortedNames(items) ==
  IF items = <<>> THEN <<>>
  ELSE SortedInsert(SortedNames(Tail(items)), Head(items).a)

\* tuple(sorted(entry['ability']['primitives']))
PrimsKey(entry) ==
  SortedNames(GetKey(GetKey(entry, "ability"), "primitives").c)

\* the keys of the Counter of element pairs over a collection
ComboKeys(records) == { PrimsKey(records[i]) : i \in 1..Len(records) }

----------------------------------------------------------------------------
(* What a subscript raises: "" when nothing, else the exception's name.    *)

\* v[key] on a value v
SubscriptError(v, key) ==
  IF v.t # "obj" THEN "TypeError"
  ELSE IF ~HasKey(v, key) THEN "KeyError"
  ELSE ""

\* for x in v
IterError(v) == IF v.t \in {"obj", "arr", "str"} THEN "" ELSE "TypeError"

\* sorted(entry['ability']['primitives']), entry a dict with 'ability'
PrimsError(entry) ==
  LET ab == GetKey(entry, "ability")
  IN IF SubscriptError(ab, "primitives") # ""
       THEN SubscriptError(ab, "primitives")
       ELSE IterError(GetKey(ab, "primitives"))

\* the first error of errs, the errors of the elements of a loop in order
FirstError(errs) ==
  LET bad == { i \in 1..Len(errs) : errs[i] # "" }
  IN IF bad = {} THEN ""
     ELSE errs[CHOOSE i \in bad : \A j \in bad : i <= j]

\* the primitives error of each record of a collection
PrimsErrors(d) == [i \in 1..Len(d) |-> PrimsError(d[i])]

----------------------------------------------------------------------------
(* Python floats: IEEE 754 binary64, round to nearest, ties to even.       *)
(* A natural number is the sequence of its base-2^15 digits, lowest first, *)
(* the highest not 0; a float is sign * mant * 2^exp with mant a natural   *)
(* of exactly 53 bits, or 0.                                               *)

\* the base of the digits: products of two digits stay below 2^31
Base == 32768

\* the bits of a digit
DigitBits == 15

\* the bits of a binary64 significand
Precision == 53

\* the bits a quotient is computed to before it is rounded
QuotientBits == 60

RECURSIVE Pow2(_)
Pow2(k) == IF k = 0 THEN 1 ELSE 2 * Pow2(k - 1)

RECURSIVE BTrim(_)
BTrim(a) ==
  IF a = <<>> THEN <<>>
  ELSE IF a[Len(a)] = 0 THEN BTrim(SubSeq(a, 1, Len(a) - 1))
  ELSE a

RECURSIVE BFromInt(_)
BFromInt(n) ==
  IF n = 0 THEN <<>> ELSE <<n % Base>> \o BFromInt(n \div Base)

RECURSIVE BAddCarry(_, _, _)
BAddCarry(a, b, carry) ==
  IF a = <<>> /\ b = <<>> THEN (IF carry = 0 THEN <<>> ELSE <<carry>>)
  ELSE LET x == IF a = <<>> THEN 0 ELSE Head(a)
           y == IF b = <<>> THEN 0 ELSE Head(b)
           t == x + y + carry
       IN <<t % Base>> \o
          BAddCarry(IF a = <<>> THEN <<>> ELSE Tail(a),
                    IF b = <<>> THEN <<>> ELSE Tail(b), t \div Base)

BAdd(a, b) == BAddCarry(a, b, 0)

\* a - b - borrow, for a >= b + borrow
RECURSIVE BSubBorrow(_, _, _)
BSubBorrow(a, b, borrow) ==
  IF a = <<>> THEN <<>>
  ELSE LET y == IF b = <<>> THEN 0 ELSE Head(b)
           t == Head(a) - y - borrow
       IN <<(t + Base) % Base>> \o
          BSubBorrow(Tail(a), IF b = <<>> THEN <<>> ELSE Tail(b),
                     IF t < 0 THEN 1 ELSE 0)

BSub(a, b) == BTrim(BSubBorrow(a, b, 0))

\* -1, 0 or 1 as a < b, a = b or a > b
RECURSIVE BCmp(_, _)
BCmp(a, b) ==
  IF Len(a) # Len(b) THEN (IF Len(a) < Len(b) THEN -1 ELSE 1)
  ELSE IF a = <<>> THEN 0
  ELSE IF a[Len(a)] # b[Len(b)]
    THEN (IF a[Len(a)] < b[Len(b)] THEN -1 ELSE 1)
  ELSE BCmp(BTrim(SubSeq(a, 1, Len(a) - 1)), BTrim(SubSeq(b, 1, Len(b) - 1)))

\* a * x + carry for a digit x
RECURSIVE BMulDigit(_, _, _)
BMulDigit(a, x, carry) ==
  IF a = <<>> THEN (IF carry = 0 THEN <<>> ELSE <<carry>>)
  ELSE LET t == Head(a) * x + carry
       IN <<t % Base>> \o BMulDigit(Tail(a), x, t \div Base)

RECURSIVE BMul(_, _)
BMul(a, b) ==
  IF a = <<>> \/ b = <<>> THEN <<>>
  ELSE BTrim(BAdd(BMulDigit(a, Head(b), 0), <<0>> \o BMul(a, Tail(b))))

\* a * 2^k
BShl(a, k) ==
  IF a = <<>> THEN <<>>
  ELSE [i \in 1..(k \div DigitBits) |-> 0]
       \o BMulDigit(a, Pow2(k % DigitBits), 0)

\* a \div x for a digit x, from the highest digit down, rem the remainder
\* carried in
RECURSIVE BDivDigit(_, _, _)
BDivDigit(a, x, rem) ==
  IF a = <<>> THEN <<>>
  ELSE LET t == rem * Base + a[Len(a)]
       IN Append(BDivDigit(SubSeq(a, 1, Len(a) - 1), x, t % x), t \div x)

\* a \div 2^k
BShr(a, k) ==
  IF Len(a) <= k \div DigitBits THEN <<>>
  ELSE LET hi == SubSeq(a, (k \div DigitBits) + 1, Len(a))
       IN BTrim(BDivDigit(hi, Pow2(k % DigitBits), 0))

RECURSIVE DigitLen(_)
DigitLen(x) == IF x = 0 THEN 0 ELSE 1 + DigitLen(x \div 2)

\* the number of bits of a
BBitLen(a) ==
  IF a = <<>> THEN 0 ELSE DigitBits * (Len(a) - 1) + DigitLen(a[Len(a)])

\* the largest digit q in lo..hi with b * q <= a, for b * lo <= a
RECURSIVE QuotientDigit(_, _, _, _)
QuotientDigit(a, b, lo, hi) ==
  IF lo = hi THEN lo
  ELSE LET mid == (lo + hi + 1) \div 2
       IN IF BCmp(BTrim(BMulDigit(b, mid, 0)), a) <= 0
            THEN QuotientDigit(a, b, mid, hi)
            ELSE QuotientDigit(a, b, lo, mid - 1)

\* long division of rem * Base^n by b for rem < b: the n digits of the
\* quotient and the remainder
RECURSIVE BDivDigits(_, _, _)
BDivDigits(b, n, rem) ==
  IF n = 0 THEN [quot |-> <<>>, rem |-> rem]
  ELSE LET a == BShl(rem, DigitBits)
           q == QuotientDigit(a, b, 0, Base - 1)
           rest == BDivDigits(b, n - 1, BSub(a, BTrim(BMulDigit(b, q, 0))))
       IN [quot |-> Append(rest.quot, q), rem |-> rest.rem]

FZero == [sign |-> 1, mant |-> <<>>, exp |-> 0]

F64(sign, mant, exp) == [sign |-> sign, mant |-> mant, exp |-> exp]

\* sign * mant * 2^exp rounded to 53 bits, to nearest, ties to even
Round(sign, mant, exp) ==
  LET n == BBitLen(mant)
      k == n - Precision
  IN IF n = 0 THEN FZero
     ELSE IF k <= 0
       THEN [sign |-> sign, mant |-> BShl(mant, -k), exp |-> exp + k]
     ELSE LET q == BShr(mant, k)
              rest == BSub(mant, BShl(q, k))
              half == BCmp(rest, BShl(<<1>>, k - 1))
              up == half > 0 \/ (half = 0 /\ q[1] % 2 = 1)
              q1 == IF up THEN BAdd(q, <<1>>) ELSE q
          IN IF BBitLen(q1) > Precision
               THEN [sign |-> sign, mant |-> BShr(q1, 1), exp |-> exp + k + 1]
               ELSE [sign |-> sign, mant |-> q1, exp |-> exp + k]

\* float(n) for an int n >= 0
FromInt(n) == Round(1, BFromInt(n), 0)

\* count / total of two ints, 0 < total < Base: the quotient to QuotientBits
\* bits by short division, with a sticky bit for the remainder
FDivInt(count, total) ==
  LET a == BShl(BFromInt(count), QuotientBits)
      q == BTrim(BDivDigit(a, total, 0))
      sticky == IF BCmp(BMulDigit(q, total, 0), a) = 0 THEN <<>> ELSE <<1>>
  IN Round(1, BAdd(BShl(q, 1), sticky), -(QuotientBits + 1))

\* x / y, y not 0: the significands have 53 bits each, so their quotient
\* is below 2; it is computed to QuotientBits bits after the point, with a
\* sticky bit for the remainder
FDiv(x, y) ==
  IF x.mant = <<>> THEN FZero
  ELSE LET first == BCmp(x.mant, y.mant) >= 0
           d == BDivDigits(y.mant, QuotientBits \div DigitBits,
                           IF first THEN BSub(x.mant, y.mant) ELSE x.mant)
           quot == BAdd(BTrim(d.quot),
                        IF first THEN BShl(<<1>>, QuotientBits) ELSE <<>>)
           sticky == IF d.rem = <<>> THEN <<>> ELSE <<1>>
       IN Round(x.sign * y.sign, BAdd(BShl(quot, 1), sticky),
                x.exp - y.exp - (QuotientBits + 1))

FMul(x, y) ==
  IF x.mant = <<>> \/ y.mant = <<>> THEN FZero
  ELSE Round(x.sign * y.sign, BMul(x.mant, y.mant), x.exp + y.exp)

FAdd(x, y) ==
  IF x.mant = <<>> THEN y
  ELSE IF y.mant = <<>> THEN x
  ELSE LET e == IF x.exp <= y.exp THEN x.exp ELSE y.exp
           mx == BShl(x.mant, x.exp - e)
           my == BShl(y.mant, y.exp - e)
       IN IF x.sign = y.sign THEN Round(x.sign, BAdd(mx, my), e)
          ELSE IF BCmp(mx, my) >= 0 THEN Round(x.sign, BSub(mx, my), e)
          ELSE Round(y.sign, BSub(my, mx), e)

FSub(x, y) ==
  FAdd(x, IF y.mant = <<>> THEN y ELSE [y EXCEPT !.sign = -y.sign])

\* -1, 0 or 1 as x < y, x = y or x > y
FCmp(x, y) ==
  LET d == FSub(x, y)
  IN IF d.mant = <<>> THEN 0 ELSE d.sign

\* math.log2(count / total) for 1 <= count <= total <= 16: the binary64
\* nearest to the logarithm of the quotient, itself a binary64
Log2OfQuotient ==
  << << FZero >>,
     << F64(-1, <<0, 0, 0, 128>>, -52),
        FZero >>,
     << F64(-1, <<15721, 18239, 28678, 202>>, -52),
        F64(-1, <<31442, 3710, 24589, 149>>, -53),
        FZero >>,
     << F64(-1, <<0, 0, 0, 128>>, -51),
        F64(-1, <<0, 0, 0, 128>>, -52),
        F64(-1, <<2654, 25346, 16357, 212>>, -54),
        FZero >>,
     << F64(-1, <<9073, 4851, 19772, 148>>, -51),
        F64(-1, <<18146, 9702, 6776, 169>>, -52),
        F64(-1, <<4853, 15694, 21731, 188>>, -53),
        F64(-1, <<7050, 6042, 27105, 164>>, -54),
        FZero >>,
     << F64(-1, <<24244, 9119, 14339, 165>>, -51),
        F64(-1, <<15721, 18239, 28678, 202>>, -52),
        F64(-1, <<0, 0, 0, 128>>, -52),
        F64(-1, <<31442, 3710, 24589, 149>>, -53),
        F64(-1, <<23062, 1379, 22073, 134>>, -54),
        FZero >>,
     << F64(-1, <<1069, 32424, 21977, 179>>, -51),
        F64(-1, <<2138, 32080, 11187, 231>>, -52),
        F64(-1, <<19186, 13840, 15277, 156>>, -52),
        F64(-1, <<4276, 31392, 22375, 206>>, -53),
        F64(-1, <<1499, 23974, 17646, 248>>, -54),
        F64(-1, <<22413, 12420, 23915, 227>>, -55),
        FZero >>,
     << F64(-1, <<0, 0, 0, 192>>, -51),
        F64(-1, <<0, 0, 0, 128>>, -51),
        F64(-1, <<17048, 14528, 4089, 181>>, -52),
        F64(-1, <<0, 0, 0, 128>>, -52),
        F64(-1, <<29243, 13362, 19215, 173>>, -53),
        F64(-1, <<2654, 25346, 16357, 212>>, -54),
        F64(-1, <<15666, 5503, 8800, 197>>, -55),
        FZero >>,
     << F64(-1, <<15721, 18239, 28678, 202>>, -51),
        F64(-1, <<15721, 18239, 28678, 138>>, -51),
        F64(-1, <<15721, 18239, 28678, 202>>, -52),
        F64(-1, <<31441, 3710, 24589, 149>>, -52),
        F64(-1, <<26588, 20784, 2857, 217>>, -53),
        F64(-1, <<31442, 3710, 24589, 149>>, -53),
        F64(-1, <<18909, 17595, 20836, 185>>, -54),
        F64(-1, <<22155, 29687, 104, 174>>, -55),
        FZero >>,
     << F64(-1, <<9073, 4851, 19772, 212>>, -51),
        F64(-1, <<9073, 4851, 19772, 148>>, -51),
        F64(-1, <<2427, 24231, 10865, 222>>, -52),
        F64(-1, <<18146, 9702, 6776, 169>>, -52),
        F64(-1, <<0, 0, 0, 128>>, -52),
        F64(-1, <<4853, 15694, 21731, 188>>, -53),
        F64(-1, <<32019, 20780, 23944, 131>>, -53),
        F64(-1, <<7050, 6042, 27105, 164>>, -54),
        F64(-1, <<24717, 15164, 21337, 155>>, -55),
        FZero >>,
     << F64(-1, <<23874, 30732, 13225, 221>>, -51),
        F64(-1, <<23874, 30732, 13225, 157>>, -51),
        F64(-1, <<32028, 10457, 30541, 239>>, -52),
        F64(-1, <<14980, 28697, 26451, 186>>, -52),
        F64(-1, <<29601, 18994, 19675, 145>>, -52),
        F64(-1, <<31288, 20915, 28314, 223>>, -53),
        F64(-1, <<25684, 26002, 30527, 166>>, -53),
        F64(-1, <<27150, 16485, 7503, 235>>, -54),
        F64(-1, <<32458, 1641, 7451, 148>>, -54),
        F64(-1, <<7434, 20887, 26332, 140>>, -55),
        FZero >>,
     << F64(-1, <<24244, 9119, 14339, 229>>, -51),
        F64(-1, <<24244, 9119, 14339, 165>>, -51),
        F64(-1, <<0, 0, 0, 128>>, -51),
        F64(-1, <<15721, 18239, 28678, 202>>, -52),
        F64(-1, <<30341, 8536, 21902, 161>>, -52),
        F64(-1, <<0, 0, 0, 128>>, -52),
        F64(-1, <<27165, 5086, 2213, 199>>, -53),
        F64(-1, <<31442, 3710, 24589, 149>>, -53),
        F64(-1, <<2654, 25346, 16357, 212>>, -54),
        F64(-1, <<23062, 1379, 22073, 134>>, -54),
        F64(-1, <<5928, 14640, 17813, 128>>, -55),
        FZero >>,
     << F64(-1, <<25139, 18211, 27136, 236>>, -51),
        F64(-1, <<25139, 18211, 27136, 172>>, -51),
        F64(-1, <<895, 9092, 12797, 135>>, -51),
        F64(-1, <<17510, 3655, 21505, 217>>, -52),
        F64(-1, <<32131, 26720, 14728, 176>>, -52),
        F64(-1, <<1789, 18184, 25594, 142>>, -52),
        F64(-1, <<30745, 8686, 20634, 228>>, -53),
        F64(-1, <<2251, 7311, 10242, 179>>, -53),
        F64(-1, <<4906, 32657, 26599, 135>>, -53),
        F64(-1, <<30219, 8579, 26147, 193>>, -54),
        F64(-1, <<20242, 29040, 25961, 246>>, -55),
        F64(-1, <<28625, 28800, 16296, 236>>, -56),
        FZero >>,
     << F64(-1, <<1069, 32424, 21977, 243>>, -51),
        F64(-1, <<1069, 32424, 21977, 179>>, -51),
        F64(-1, <<9593, 23304, 7638, 142>>, -51),
        F64(-1, <<2138, 32080, 11187, 231>>, -52),
        F64(-1, <<16759, 22377, 4411, 190>>, -52),
        F64(-1, <<19186, 13840, 15277, 156>>, -52),
        F64(-1, <<0, 0, 0, 128>>, -52),
        F64(-1, <<4276, 31392, 22375, 206>>, -53),
        F64(-1, <<6929, 23970, 5965, 163>>, -53),
        F64(-1, <<1499, 23974, 17646, 248>>, -54),
        F64(-1, <<14168, 13530, 4480, 178>>, -54),
        F64(-1, <<22413, 12420, 23915, 227>>, -55),
        F64(-1, <<16185, 28808, 31533, 218>>, -56),
        FZero >>,
     << F64(-1, <<550, 13971, 1343, 250>>, -51),
        F64(-1, <<550, 13971, 1343, 186>>, -51),
        F64(-1, <<9073, 4851, 19772, 148>>, -51),
        F64(-1, <<1099, 27942, 2686, 244>>, -52),
        F64(-1, <<15721, 18239, 28678, 202>>, -52),
        F64(-1, <<18146, 9702, 6776, 169>>, -52),
        F64(-1, <<31729, 28629, 24266, 140>>, -52),
        F64(-1, <<2199, 23116, 5373, 232>>, -53),
        F64(-1, <<4853, 15694, 21731, 188>>, -53),
        F64(-1, <<31442, 3710, 24589, 149>>, -53),
        F64(-1, <<10016, 29746, 3243, 229>>, -54),
        F64(-1, <<7050, 6042, 27105, 164>>, -54),
        F64(-1, <<32553, 30451, 13293, 211>>, -55),
        F64(-1, <<16151, 32095, 27821, 203>>, -56),
        FZero >>,
     << F64(-1, <<0, 0, 0, 128>>, -50),
        F64(-1, <<0, 0, 0, 192>>, -51),
        F64(-1, <<8524, 23648, 18428, 154>>, -51),
        F64(-1, <<0, 0, 0, 128>>, -51),
        F64(-1, <<14621, 23065, 25991, 214>>, -52),
        F64(-1, <<17048, 14528, 4089, 181>>, -52),
        F64(-1, <<30630, 687, 21580, 152>>, -52),
        F64(-1, <<0, 0, 0, 128>>, -52),
        F64(-1, <<2654, 25346, 16357, 212>>, -53),
        F64(-1, <<29243, 13362, 19215, 173>>, -53),
        F64(-1, <<2809, 8141, 12632, 138>>, -53),
        F64(-1, <<2654, 25346, 16357, 212>>, -54),
        F64(-1, <<28264, 18145, 12283, 153>>, -54),
        F64(-1, <<15666, 5503, 8800, 197>>, -55),
        F64(-1, <<15180, 11679, 22546, 190>>, -56),
        FZero >> >>

\* math.log2(n) for an int n in 1..16
Log2OfInt ==
  << FZero,
     F64(1, <<0, 0, 0, 128>>, -52),
     F64(1, <<15720, 18239, 28678, 202>>, -52),
     F64(1, <<0, 0, 0, 128>>, -51),
     F64(1, <<9073, 4851, 19772, 148>>, -51),
     F64(1, <<24244, 9119, 14339, 165>>, -51),
     F64(1, <<1069, 32424, 21977, 179>>, -51),
     F64(1, <<0, 0, 0, 192>>, -51),
     F64(1, <<15720, 18239, 28678, 202>>, -51),
     F64(1, <<9073, 4851, 19772, 212>>, -51),
     F64(1, <<23874, 30732, 13225, 221>>, -51),
     F64(1, <<24244, 9119, 14339, 229>>, -51),
     F64(1, <<25139, 18211, 27136, 236>>, -51),
     F64(1, <<1069, 32424, 21977, 243>>, -51),
     F64(1, <<550, 13971, 1343, 250>>, -51),
     F64(1, <<0, 0, 0, 128>>, -50) >>

----------------------------------------------------------------------------
(* main of fix_training_data.py                                            *)

\* the for loop of extract_json_objects, one character a step; an exception
\* of json.loads that the loop does not catch ends main
Scan ==
  /\ pc = "scan"
  /\ pos <= Len(text)
  /\ LET st == ExtractStep(
                 [depth |-> depth, current_obj |-> current_obj,
                  in_object |-> in_object, objects |-> objects,
                  spans |-> spans, exc |-> ""], text[pos])
     IN /\ depth' = st.depth
        /\ current_obj' = st.current_obj
        /\ in_object' = st.in_object
        /\ objects' = st.objects
        /\ spans' = st.spans
        /\ raised' = st.exc
        /\ pc' = IF st.exc = "" THEN "scan" ELSE "exit"
  /\ pos' = pos + 1
  /\ UNCHANGED <<frags, text, repairVars, fileVars, validateVars,
                 analysisVars,
                 entropyVars>>

\* return objects, and main goes on to validate them
ScanReturn ==
  /\ pc = "scan"
  /\ pos > Len(text)
  /\ pc' = "validate"
  /\ UNCHANGED <<scanVars, raised, repairVars, fileVars, validateVars,
                 analysisVars,
                 entropyVars>>

\* the validation loop with its test lost: every object is kept
ValidateStepKeepsAll ==
  /\ pc = "validate"
  /\ vi <= Len(objects)
  /\ vi' = vi + 1
  /\ valid_objects' = Append(valid_objects, objects[vi])
  /\ UNCHANGED <<raised, pc, invalid_count>>
  /\ UNCHANGED <<scanVars, exit_status, fileVars, validateVars, analysisVars,
                 entropyVars>>

\* one turn of the validation loop of main
ValidateStep ==
  /\ pc = "validate"
  /\ vi <= Len(objects)
  /\ LET v == validate_ability(objects[vi])
     IN IF v.raised
          THEN /\ raised' = v.msg
               /\ pc' = "exit"
               /\ UNCHANGED <<vi, valid_objects, invalid_count>>
          ELSE /\ vi' = vi + 1
               /\ valid_objects' =
                    IF v.ok THEN Append(valid_objects, objects[vi])
                    ELSE valid_objects
               /\ invalid_count' =
                    IF v.ok THEN invalid_count ELSE invalid_count + 1
               /\ UNCHANGED <<raised, pc>>
  /\ UNCHANGED <<scanVars, exit_status, fileVars, validateVars, analysisVars,
                 entropyVars>>

\* json.dump(valid_objects, f)
WriteFixed ==
  /\ pc = "validate"
  /\ vi > Len(objects)
  /\ output' = valid_objects
  /\ written' = TRUE
  /\ pc' = "summary"
  /\ UNCHANGED <<scanVars, raised, repairVars, validateVars, analysisVars,
                 entropyVars>>

\* the summary statistics: the average divides by the number of combinations
Summary ==
  /\ pc = "summary"
  /\ raised' = IF FirstError(PrimsErrors(valid_objects)) # ""
                 THEN FirstError(PrimsErrors(valid_objects))
               ELSE IF Cardinality(ComboKeys(valid_objects)) = 0
                 THEN "ZeroDivisionError"
               ELSE ""
  /\ pc' = "exit"
  /\ UNCHANGED <<scanVars, repairVars, fileVars, validateVars, analysisVars,
                 entropyVars>>

\* exit(0 if count > 0 else 1), count what main returned; an exception that
\* nothing catches ends the process with status 1
ExitStatus(exc, count) == IF exc # "" THEN 1 ELSE IF count > 0 THEN 0 ELSE 1

Exit ==
  /\ pc = "exit"
  /\ exit_status' = ExitStatus(raised, Len(valid_objects))
  /\ pc' = "done"
  /\ UNCHANGED <<scanVars, raised, vi, valid_objects, invalid_count,
                 fileVars, validateVars, analysisVars,
                 entropyVars>>

NoVerdict == [raised |-> FALSE, ok |-> FALSE, msg |-> ""]

NoAnalysis == [set |-> FALSE]

ScanIdle ==
  /\ pos = 1
  /\ depth = 0
  /\ current_obj = <<>>
  /\ in_object = FALSE
  /\ objects = <<>>
  /\ spans = <<>>

RepairIdle ==
  /\ vi = 1
  /\ valid_objects = <<>>
  /\ invalid_count = 0
  /\ exit_status = -1

ValidateIdle ==
  /\ candidate = JNull
  /\ verdict = NoVerdict

EntropyIdle ==
  /\ count_values = <<>>
  /\ count_index = 0
  /\ count_total = 0
  /\ entropy_bits = FZero
  /\ evenness = FZero

AnalysisIdle ==
  /\ data = <<>>
  /\ elem_analysis = NoAnalysis
  /\ action_analysis = NoAnalysis
  /\ status_analysis = NoAnalysis
  /\ complexity_analysis = NoAnalysis
  /\ scores = <<>>
  /\ overall_score = -1
  /\ ret = -1

\* the repair tool, started on a raw corpus
Init ==
  /\ frags \in Corpora
  /\ text = Concat(frags)
  /\ ScanIdle
  /\ pc = "scan"
  /\ raised = ""
  /\ RepairIdle
  /\ output = <<>>
  /\ written = FALSE
  /\ ValidateIdle
  /\ AnalysisIdle
  /\ EntropyIdle

Next == Scan \/ ScanReturn \/ ValidateStep \/ WriteFixed \/ Summary \/ Exit

Spec == Init /\ [][Next]_vars

----------------------------------------------------------------------------
(* validate_ability, called on candidates that passed the loose gate       *)

Optional(member) == { <<>>, <<member>> }

PrimitivesValues ==
  { JArr(<<JStr("fire"), JStr("water")>>), JArr(<<JStr("fire")>>),
    JArr(<<>>), JArr(<<JStr("fire"), JStr("ice"), JStr("wind")>>),
    JStr("ab"), JNum("5"), JNull }

EffectsValues ==
  { JArr(<<JObj(<<JPair("script", JArr(<<>>))>>)>>), JArr(<<>>),
    JNum("5"), JNum("0"), JNull }

AbilityValues ==
  { JNum("5"), JNull, JStr("x"), JStr("primitives"), JArr(<<>>),
    JArr(<<JStr("primitives")>>) }
  \cup
  { JObj(p \o e \o c) :
      p \in {<<>>} \cup { <<JPair("primitives", v)>> : v \in PrimitivesValues },
      e \in {<<>>} \cup { <<JPair("effects", v)>> : v \in EffectsValues },
      c \in Optional(JPair("cooldown", JNum("3"))) }

Candidates ==
  { JObj(<<JPair("name", JStr("x"))>> \o d \o c \o <<JPair("ability", a)>>) :
      d \in Optional(JPair("description", JStr("d"))),
      c \in Optional(JPair("color", JStr("c"))),
      a \in AbilityValues }

CallValidate ==
  /\ pc = "call"
  /\ verdict' = validate_ability(candidate)
  /\ pc' = "returned"
  /\ UNCHANGED <<scanVars, raised, repairVars, fileVars, candidate,
                 analysisVars,
                 entropyVars>>

InitValidate ==
  /\ frags = <<>>
  /\ text = <<>>
  /\ ScanIdle
  /\ pc = "call"
  /\ raised = ""
  /\ RepairIdle
  /\ output = <<>>
  /\ written = FALSE
  /\ candidate \in Candidates
  /\ verdict = NoVerdict
  /\ AnalysisIdle
  /\ EntropyIdle

NextValidate == CallValidate

SpecValidate == InitValidate /\ [][NextValidate]_vars

----------------------------------------------------------------------------
(* DiversityAnalyzer.  Fractions are kept as integers: a percentage in     *)
(* hundredths of a percent,  an entropy in millionths of a bit, an average *)
(* in thousandths, each rounded down.                                      *)

\* max_possible of analyze_element_combinations
MaxPossible == 28

\* the 5 complexity levels and the 10 statuses the score assumes
ComplexityLevels == 5

StatusTypes == 10

\* math.log2(n) for n in 1..64, in millionths
Log2Micro ==
  << 0, 1000000, 1584963, 2000000, 2321928, 2584963, 2807355, 3000000,
     3169925, 3321928, 3459432, 3584963, 3700440, 3807355, 3906891, 4000000,
     4087463, 4169925, 4247928, 4321928, 4392317, 4459432, 4523562, 4584963,
     4643856, 4700440, 4754888, 4807355, 4857981, 4906891, 4954196, 5000000,
     5044394, 5087463, 5129283, 5169925, 5209453, 5247928, 5285402, 5321928,
     5357552, 5392317, 5426265, 5459432, 5491853, 5523562, 5554589, 5584963,
     5614710, 5643856, 5672425, 5700440, 5727920, 5754888, 5781360, 5807355,
     5832890, 5857981, 5882643, 5906891, 5930737, 5954196, 5977280, 6000000 >>

log2(n) == Log2Micro[n]

\* n / d * 100, in hundredths of a percent
Percent(n, d) ==
  ((n * 100) \div d) * 100 + (((n * 100) % d) * 100) \div d

\* 100 percent
Hundred == Percent(1, 1)

\* n / d
AverageMilli(n, d) == (n * 1000) \div d

Max(a, b) == IF a >= b THEN a ELSE b

MinOf(S) == CHOOSE x \in S : \A y \in S : x <= y

MaxOf(S) == CHOOSE x \in S : \A y \in S : x >= y

RECURSIVE SumSeq(_)
SumSeq(q) == IF q = <<>> THEN 0 ELSE Head(q) + SumSeq(Tail(q))

RECURSIVE Flatten(_)
Flatten(seqs) ==
  IF seqs = <<>> THEN <<>> ELSE Head(seqs) \o Flatten(Tail(seqs))

\* Counter(seq): each value of seq with the number of its occurrences
Counter(seq) ==
  [k \in { seq[i] : i \in 1..Len(seq) } |->
     Cardinality({ i \in 1..Len(seq) : seq[i] = k })]

RECURSIVE SumCounts(_, _)
SumCounts(counts, keys) ==
  IF keys = {} THEN 0
  ELSE LET k == CHOOSE x \in keys : TRUE
       IN counts[k] + SumCounts(counts, keys \ {k})

\* the sum of -p * log2(p) * total over the keys, p = count / total
RECURSIVE EntropyTerms(_, _, _)
EntropyTerms(counts, keys, total) ==
  IF keys = {} THEN 0
  ELSE LET k == CHOOSE x \in keys : TRUE
       IN (IF counts[k] > 0
             THEN counts[k] * (log2(total) - log2(counts[k])) ELSE 0)
          + EntropyTerms(counts, keys \ {k}, total)

shannon_entropy(counts) ==
  LET total == SumCounts(counts, DOMAIN counts)
  IN IF total = 0 THEN 0
     ELSE EntropyTerms(counts, DOMAIN counts, total) \div total

CountValues(counts) == { counts[k] : k \in DOMAIN counts }

analyze_element_combinations(d) ==
  LET combos == Counter([i \in 1..Len(d) |-> PrimsKey(d[i])])
      n == Cardinality(DOMAIN combos)
      entropy == shannon_entropy(combos)
      max_entropy == IF n > 0 THEN log2(n) ELSE 0
  IN [ set |-> TRUE,
       unique_combinations |-> n,
       max_possible |-> MaxPossible,
       coverage_percent |-> Percent(n, MaxPossible),
       distribution |-> combos,
       entropy |-> entropy,
       max_entropy |-> max_entropy,
       evenness_percent |->
         IF max_entropy > 0 THEN Percent(entropy, max_entropy) ELSE 0,
       min_samples |-> IF n > 0 THEN MinOf(CountValues(combos)) ELSE 0,
       max_samples |-> IF n > 0 THEN MaxOf(CountValues(combos)) ELSE 0,
       avg_samples |->
         IF n > 0 THEN AverageMilli(SumCounts(combos, DOMAIN combos), n)
         ELSE 0 ]

\* d.get(key, default), as the children it holds
OnHit(script_item) ==
  IF HasKey(script_item, "on_hit") THEN GetKey(script_item, "on_hit").c
  ELSE <<>>

\* script.get('action', default)
ActionOr(script_item, default) ==
  IF HasKey(script_item, "action") THEN GetKey(script_item, "action").a
  ELSE default

\* script_item.get('args', {}).get('status', 'unknown')
StatusOf(script_item) ==
  LET args == IF HasKey(script_item, "args") THEN GetKey(script_item, "args")
              ELSE JObj(<<>>)
  IN IF HasKey(args, "status") THEN GetKey(args, "status").a ELSE "unknown"

EffectsOf(entry) == GetKey(GetKey(entry, "ability"), "effects").c

ScriptOf(effect) == GetKey(effect, "script").c

\* the script items of  for effect in effects: for script in effect['script']
TopScripts(entry) ==
  Flatten([k \in 1..Len(EffectsOf(entry)) |-> ScriptOf(EffectsOf(entry)[k])])

\* the sequence of top-level actions of one entry
EntryActions(entry) ==
  [i \in 1..Len(TopScripts(entry)) |-> ActionOr(TopScripts(entry)[i], "unknown")]

analyze_actions(d) ==
  LET action_sequences == [i \in 1..Len(d) |-> EntryActions(d[i])]
      actions == Counter(Flatten(action_sequences))
      unique_sequences ==
        Cardinality({ action_sequences[i] : i \in 1..Len(d) })
  IN [ set |-> TRUE,
       action_distribution |-> actions,
       unique_actions |-> Cardinality(DOMAIN actions),
       entropy |-> shannon_entropy(actions),
       unique_sequences |-> unique_sequences,
       sequence_entropy |-> shannon_entropy(Counter(action_sequences)),
       sequence_diversity_percent |-> Percent(unique_sequences, Len(d)) ]

RECURSIVE extract_statuses(_, _)
RECURSIVE ExtractStatusesOnHit(_, _, _)

\* the walk that stops at the top-level script items
ExtractStatusesTopLevel(script_item, path) ==
  << [ path |-> path,
       tally |-> IF ActionOr(script_item, "None") = "apply_status"
                   THEN <<StatusOf(script_item)>> ELSE <<>> ] >>

\* extract_statuses of analyze_status_effects: the calls it makes, in order,
\* each with the place of its script item (path: the entry, the effect, the
\* script item, then the on_hit indices) and what it adds to the Counter
extract_statuses(script_item, path) ==
  << [ path |-> path,
       tally |-> IF ActionOr(script_item, "None") = "apply_status"
                   THEN <<StatusOf(script_item)>> ELSE <<>> ] >>
  \o ExtractStatusesOnHit(OnHit(script_item), path, 1)

\* for on_hit in script_item.get('on_hit', []): extract_statuses(on_hit)
ExtractStatusesOnHit(kids, path, i) ==
  IF i > Len(kids) THEN <<>>
  ELSE extract_statuses(kids[i], Append(path, i))
       \o ExtractStatusesOnHit(kids, path, i + 1)

\* the calls of extract_statuses for entry number e
EntryStatusCalls(entry, e) ==
  Flatten([k \in 1..Len(EffectsOf(entry)) |->
    Flatten([j \in 1..Len(ScriptOf(EffectsOf(entry)[k])) |->
      extract_statuses(ScriptOf(EffectsOf(entry)[k])[j], <<e, k, j>>)])])

analyze_status_effects(d) ==
  LET calls == Flatten([e \in 1..Len(d) |-> EntryStatusCalls(d[e], e)])
      statuses == Counter(Flatten([i \in 1..Len(calls) |-> calls[i].tally]))
  IN [ set |-> TRUE,
       distribution |-> statuses,
       unique_statuses |-> Cardinality(DOMAIN statuses),
       entropy |-> shannon_entropy(statuses),
       visited |-> [i \in 1..Len(calls) |-> calls[i].path] ]

RECURSIVE GetMaxDepthLastWins(_, _)
RECURSIVE LastWinsLoop(_, _, _, _)

\* get_max_depth keeping the last child's depth, not the largest
GetMaxDepthLastWins(script_item, d) == LastWinsLoop(OnHit(script_item), 1, d, d)

LastWinsLoop(kids, i, d, max_d) ==
  IF i > Len(kids) THEN max_d
  ELSE LastWinsLoop(kids, i + 1, d, GetMaxDepthLastWins(kids[i], d + 1))

RECURSIVE get_max_depth(_, _)
RECURSIVE GetMaxDepthLoop(_, _, _, _)

\* get_max_depth of analyze_complexity
get_max_depth(script_item, d) == GetMaxDepthLoop(OnHit(script_item), 1, d, d)

\* for on_hit in ...: max_d = max(max_d, get_max_depth(on_hit, depth + 1))
GetMaxDepthLoop(kids, i, d, max_d) ==
  IF i > Len(kids) THEN max_d
  ELSE GetMaxDepthLoop(kids, i + 1, d,
                       Max(max_d, get_max_depth(kids[i], d + 1)))

\* max_depth of one entry: the loop of lines 154-157 from script item i on
RECURSIVE EntryMaxDepth(_, _, _)
EntryMaxDepth(scripts, i, max_depth) ==
  IF i > Len(scripts) THEN max_depth
  ELSE EntryMaxDepth(scripts, i + 1,
                     Max(max_depth, get_max_depth(scripts[i], 0)))

analyze_complexity(d) ==
  LET script_lengths == [i \in 1..Len(d) |-> Len(TopScripts(d[i]))]
      nested_depths ==
        [i \in 1..Len(d) |-> EntryMaxDepth(TopScripts(d[i]), 1, 0)]
  IN [ set |-> TRUE,
       script_lengths |-> script_lengths,
       nested_depths |-> nested_depths,
       avg_scripts_per_ability |-> AverageMilli(SumSeq(script_lengths), Len(d)),
       min_scripts |-> MinOf({ script_lengths[i] : i \in 1..Len(d) }),
       max_scripts |-> MaxOf({ script_lengths[i] : i \in 1..Len(d) }),
       avg_nesting_depth |-> AverageMilli(SumSeq(nested_depths), Len(d)),
       max_nesting_depth |-> MaxOf({ nested_depths[i] : i \in 1..Len(d) }),
       complexity_entropy |-> shannon_entropy(Counter(script_lengths)) ]

Min(a, b) == IF a <= b THEN a ELSE b

\* the five scores calculate_overall_diversity_score averages
DiversityScores(elements, actions, status_effects, complexity) ==
  << elements.coverage_percent,
     elements.evenness_percent,
     actions.sequence_diversity_percent,
     Min(Percent(complexity.complexity_entropy, log2(ComplexityLevels)),
         Hundred),
     Min(Percent(status_effects.unique_statuses, StatusTypes), Hundred) >>

calculate_overall_diversity_score(elements, actions, status_effects, complexity) ==
  LET q == DiversityScores(elements, actions, status_effects, complexity)
  IN SumSeq(q) \div Len(q)

----------------------------------------------------------------------------
(* Collections of accepted records, as the fixed file holds them.          *)

LeafNode(action, args) ==
  JObj(<<JPair("action", JStr(action)), JPair("args", JObj(args))>>)

TreeNode(action, args, kids) ==
  JObj(<<JPair("action", JStr(action)), JPair("args", JObj(args)),
         JPair("on_hit", JArr(kids))>>)

Damage == LeafNode("damage", <<JPair("amount", JNum("5"))>>)

Burn ==
  LeafNode("apply_status",
           <<JPair("status", JStr("burn")), JPair("duration", JNum("3"))>>)

Freeze == LeafNode("apply_status", <<JPair("status", JStr("freeze"))>>)

\* apply_status with no args: its status counts as "unknown"
StatusNoArgs == JObj(<<JPair("action", JStr("apply_status"))>>)

\* a chain of n on_hit edges, an apply_status at its end
RECURSIVE Chain(_)
Chain(n) ==
  IF n = 0 THEN Burn ELSE TreeNode("damage", <<>>, <<Chain(n - 1)>>)

ScriptTrees ==
  { Damage, Burn, Freeze, StatusNoArgs }
  \cup { Chain(n) : n \in 1..MaxChain }
  \cup { TreeNode("spawn_melee", <<>>, <<Burn, Freeze>>),
         TreeNode("apply_status", <<JPair("status", JStr("freeze"))>>,
                  <<Chain(1), Damage>>),
         TreeNode("damage", <<>>, <<StatusNoArgs, Chain(2)>>),
         TreeNode("damage", <<>>, <<>>) }

Effect(script) == JObj(<<JPair("script", JArr(script))>>)

EffectsLists ==
  { JArr(<<Effect(<<t>>)>>) : t \in ScriptTrees }
  \cup { JArr(<<Effect(<<>>)>>),
         JArr(<<Effect(<<Damage, Chain(2)>>)>>),
         JArr(<<Effect(<<Chain(1)>>), Effect(<<Burn, StatusNoArgs>>)>>) }

AbilityRecord(name, first, second, effects) ==
  JObj(<<JPair("name", JStr(name)), JPair("description", JStr("d")),
         JPair("color", JStr("c")),
         JPair("ability",
               JObj(<<JPair("primitives", JArr(<<JStr(first), JStr(second)>>)),
                      JPair("effects", effects),
                      JPair("cooldown", JNum("3"))>>))>>)

Records == { AbilityRecord("x", "water", "fire", e) : e \in EffectsLists }

NumElements == Len(ElementNames)

\* the pairs <<i, j>>, i <= j, of element indices: row i is <<i, i>> .. <<i, 8>>
RECURSIVE PairRows(_)
PairRows(i) ==
  IF i > NumElements THEN <<>>
  ELSE [j \in 1..(NumElements - i + 1) |-> <<i, i + j - 1>>] \o PairRows(i + 1)

PairOrder == PairRows(1)

\* k records, one for each of the first k pairs, its primitives given larger
\* element first
Sweep(k) ==
  [n \in 1..k |->
     AbilityRecord("x", ElementNames[PairOrder[n][2]],
                   ElementNames[PairOrder[n][1]], JArr(<<Effect(<<Damage>>)>>))]

Collections ==
  UNION { [1..n -> Records] : n \in 0..MaxRecs }
  \cup { Sweep(k) \o r : k \in 1..Len(PairOrder),
                         r \in {<<>>} \cup { <<x>> : x \in Records } }

----------------------------------------------------------------------------
(* main and generate_report of analyze_training_diversity.py               *)

\* One turn of the inline extraction loop of main on character ch, from the
\* locals st = [depth, current_obj, data, spans].
InlineStep(st, ch) ==
  LET co1 == IF ch = "{" /\ st.depth = 0 THEN <<>> ELSE st.current_obj
      d1 == IF ch = "{" THEN st.depth + 1 ELSE st.depth
      co2 == IF d1 > 0 THEN Append(co1, ch) ELSE co1
      d2 == IF ch = "}" THEN d1 - 1 ELSE d1
      emits == ch = "}" /\ d2 = 0
      r == json_loads(co2)
  IN [ depth |-> d2,
       current_obj |-> co2,
       data |-> IF emits /\ r.ok /\ LooseGate(r.v)
                  THEN Append(st.data, r.v) ELSE st.data,
       spans |-> IF emits THEN Append(st.spans, co2) ELSE st.spans ]

\* what iterating effects and subscripting each effect raises, for an entry
\* whose ability is a dict: analyze_actions, lines 68-70
ScriptsError(entry) ==
  LET ab == GetKey(entry, "ability")
      effectError(effect) ==
        IF SubscriptError(effect, "script") # ""
          THEN SubscriptError(effect, "script")
        ELSE IF IterError(GetKey(effect, "script")) # ""
          THEN "TypeError"
        ELSE IF \E i \in 1..Len(GetKey(effect, "script").c) :
                  GetKey(effect, "script").c[i].t # "obj"
          THEN "AttributeError"
        ELSE ""
  IN IF SubscriptError(ab, "effects") # "" THEN SubscriptError(ab, "effects")
     ELSE IF IterError(GetKey(ab, "effects")) # "" THEN "TypeError"
     ELSE IF GetKey(ab, "effects").t # "arr"
       THEN (IF PyLen(GetKey(ab, "effects")) > 0 THEN "TypeError" ELSE "")
     ELSE FirstError([i \in 1..Len(GetKey(ab, "effects").c) |->
                       effectError(GetKey(ab, "effects").c[i])])

\* the fixed file is loaded when it exists, else the raw corpus is scanned
OpenInput ==
  /\ pc = "start"
  /\ IF written
       THEN /\ data' = output
            /\ pc' = "check"
       ELSE /\ pc' = "fallback"
            /\ UNCHANGED data
  /\ UNCHANGED <<scanVars, raised, repairVars, fileVars, validateVars,
                 elem_analysis, action_analysis, status_analysis,
                 complexity_analysis, scores, overall_score, ret,
                 entropyVars>>

\* the inline extraction loop, one character a step
InlineScan ==
  /\ pc = "fallback"
  /\ pos <= Len(text)
  /\ LET st == InlineStep([depth |-> depth, current_obj |-> current_obj,
                           data |-> data, spans |-> spans], text[pos])
     IN /\ depth' = st.depth
        /\ current_obj' = st.current_obj
        /\ data' = st.data
        /\ spans' = st.spans
  /\ pos' = pos + 1
  /\ UNCHANGED <<frags, text, in_object, objects, pc, raised, repairVars,
                 fileVars, validateVars, elem_analysis, action_analysis,
                 status_analysis, complexity_analysis, scores, overall_score,
                 ret,
                 entropyVars>>

InlineDone ==
  /\ pc = "fallback"
  /\ pos > Len(text)
  /\ pc' = "check"
  /\ UNCHANGED <<scanVars, raised, repairVars, fileVars, validateVars,
                 analysisVars,
                 entropyVars>>

\* if not data: return 1
CheckData ==
  /\ pc = "check"
  /\ IF data = <<>>
       THEN /\ ret' = 1
            /\ pc' = "done"
       ELSE /\ pc' = "elements"
            /\ UNCHANGED ret
  /\ UNCHANGED <<scanVars, raised, repairVars, fileVars, validateVars, data,
                 elem_analysis, action_analysis, status_analysis,
                 complexity_analysis, scores, overall_score,
                 entropyVars>>

\* section 1 of the report: the analysis, then the top and bottom 5
\* combinations printed as combo[0] + combo[1].  With more than 10
\* combinations those in the middle are not printed; the model's collections
\* of that size hold pairs only.
ReportElements ==
  /\ pc = "elements"
  /\ IF FirstError(PrimsErrors(data)) # ""
       THEN /\ raised' = FirstError(PrimsErrors(data))
            /\ pc' = "done"
            /\ UNCHANGED elem_analysis
       ELSE /\ elem_analysis' = analyze_element_combinations(data)
            /\ IF \E key \in ComboKeys(data) : Len(key) < 2
                 THEN /\ raised' = "IndexError"
                      /\ pc' = "done"
                 ELSE /\ pc' = "actions"
                      /\ UNCHANGED raised
  /\ UNCHANGED <<scanVars, repairVars, fileVars, validateVars, data,
                 action_analysis, status_analysis, complexity_analysis,
                 scores, overall_score, ret,
                 entropyVars>>

\* sections 2 and 3: analyze_actions, and analyze_melee_attacks, which reads
\* the same fields
ReportActions ==
  /\ pc = "actions"
  /\ IF FirstError([i \in 1..Len(data) |-> ScriptsError(data[i])]) # ""
       THEN /\ raised' = FirstError([i \in 1..Len(data) |-> ScriptsError(data[i])])
            /\ pc' = "done"
            /\ UNCHANGED action_analysis
       ELSE /\ action_analysis' = analyze_actions(data)
            /\ pc' = "status"
            /\ UNCHANGED raised
  /\ UNCHANGED <<scanVars, repairVars, fileVars, validateVars, data,
                 elem_analysis, status_analysis, complexity_analysis, scores,
                 overall_score, ret,
                 entropyVars>>

\* section 4
ReportStatus ==
  /\ pc = "status"
  /\ status_analysis' = analyze_status_effects(data)
  /\ pc' = "complexity"
  /\ UNCHANGED <<scanVars, raised, repairVars, fileVars, validateVars, data,
                 elem_analysis, action_analysis, complexity_analysis, scores,
                 overall_score, ret,
                 entropyVars>>

\* sections 5 and 6: analyze_complexity, and analyze_parameters, which reads
\* the same fields
ReportComplexity ==
  /\ pc = "complexity"
  /\ complexity_analysis' = analyze_complexity(data)
  /\ pc' = "score"
  /\ UNCHANGED <<scanVars, raised, repairVars, fileVars, validateVars, data,
                 elem_analysis, action_analysis, status_analysis, scores,
                 overall_score, ret,
                 entropyVars>>

\* the overall score, the verdict and the recommendations; main returns 0
ReportScore ==
  /\ pc = "score"
  /\ scores' = DiversityScores(elem_analysis, action_analysis,
                               status_analysis, complexity_analysis)
  /\ overall_score' =
       calculate_overall_diversity_score(elem_analysis, action_analysis,
                                         status_analysis, complexity_analysis)
  /\ ret' = 0
  /\ pc' = "done"
  /\ UNCHANGED <<scanVars, raised, repairVars, fileVars, validateVars, data,
                 elem_analysis, action_analysis, status_analysis,
                 complexity_analysis,
                 entropyVars>>

\* the analysis tool, started with a fixed file or, without one, a raw corpus
InitAnalyze ==
  /\ written \in BOOLEAN
  /\ IF written
       THEN output \in Collections /\ frags = <<>>
       ELSE output = <<>> /\ frags \in Corpora
  /\ text = Concat(frags)
  /\ ScanIdle
  /\ pc = "start"
  /\ raised = ""
  /\ RepairIdle
  /\ ValidateIdle
  /\ AnalysisIdle
  /\ EntropyIdle

NextAnalyze ==
  \/ OpenInput
  \/ InlineScan
  \/ InlineDone
  \/ CheckData
  \/ ReportElements
  \/ ReportActions
  \/ ReportStatus
  \/ ReportComplexity
  \/ ReportScore

SpecAnalyze == InitAnalyze /\ [][NextAnalyze]_vars

----------------------------------------------------------------------------
(* shannon_entropy and the evenness derived from it, in Python's floats.   *)
(* The analysis above carries an entropy rounded to millionths of a bit;   *)
(* here each division, product and difference rounds as binary64 does.     *)

\* the keys of the largest distribution of equal counts
MaxKeys == 11

\* the largest count of a key
MaxCount == 2

\* the keys of the largest distribution of arbitrary counts
SmallKeys == 3

\* counts.values() of the Counters shannon_entropy is called on
Distributions ==
  UNION { [1..n -> 0..MaxCount] : n \in 0..SmallKeys }
  \cup { [i \in 1..n |-> c] : n \in 1..MaxKeys, c \in 1..MaxCount }

RECURSIVE GCD(_, _)
GCD(a, b) == IF b = 0 THEN a ELSE GCD(b, a % b)

\* math.log2(p) for p = count / total: p and so its logarithm are those of
\* the fraction in lowest terms
Log2OfP(count, total) ==
  Log2OfQuotient[total \div GCD(count, total)][count \div GCD(count, total)]

\* total = sum(counts.values()); if total == 0: return 0.0
EntropyStart ==
  /\ pc = "entropy"
  /\ count_total' = SumSeq(count_values)
  /\ entropy_bits' = FZero
  /\ count_index' = 1
  /\ pc' = IF SumSeq(count_values) = 0 THEN "evenness" ELSE "loop"
  /\ UNCHANGED <<scanVars, raised, repairVars, fileVars, validateVars,
                 analysisVars, count_values, evenness>>

\* for count in counts.values(): if count > 0, p = count / total and
\* entropy -= p * math.log2(p)
EntropyStep ==
  /\ pc = "loop"
  /\ count_index <= Len(count_values)
  /\ LET count == count_values[count_index]
     IN entropy_bits' =
          IF count > 0
            THEN FSub(entropy_bits, FMul(FDivInt(count, count_total),
                                         Log2OfP(count, count_total)))
            ELSE entropy_bits
  /\ count_index' = count_index + 1
  /\ UNCHANGED <<scanVars, pc, raised, repairVars, fileVars, validateVars,
                 analysisVars, count_values, count_total, evenness>>

\* return entropy
EntropyReturn ==
  /\ pc = "loop"
  /\ count_index > Len(count_values)
  /\ pc' = "evenness"
  /\ UNCHANGED <<scanVars, raised, repairVars, fileVars, validateVars,
                 analysisVars, entropyVars>>

\* max_entropy = math.log2(len(combos)) if combos else 0
MaxEntropy(n) == IF n > 0 THEN Log2OfInt[n] ELSE FZero

\* (entropy / max_entropy * 100) if max_entropy > 0 else 0
EvennessOf(entropy, max_entropy) ==
  IF FCmp(max_entropy, FZero) > 0
    THEN FMul(FDiv(entropy, max_entropy), FromInt(100))
    ELSE FZero

\* the evenness analyze_element_combinations derives from the entropy
Evenness ==
  /\ pc = "evenness"
  /\ evenness' = EvennessOf(entropy_bits, MaxEntropy(Len(count_values)))
  /\ pc' = "done"
  /\ UNCHANGED <<scanVars, raised, repairVars, fileVars, validateVars,
                 analysisVars, count_values, count_index, count_total,
                 entropy_bits>>

\* a call of shannon_entropy on a distribution, then the evenness
InitEntropy ==
  /\ frags = <<>>
  /\ text = <<>>
  /\ ScanIdle
  /\ pc = "entropy"
  /\ raised = ""
  /\ RepairIdle
  /\ output = <<>>
  /\ written = FALSE
  /\ ValidateIdle
  /\ AnalysisIdle
  /\ count_values \in Distributions
  /\ count_index = 0
  /\ count_total = 0
  /\ entropy_bits = FZero
  /\ evenness = FZero

NextEntropy == EntropyStart \/ EntropyStep \/ EntropyReturn \/ Evenness

SpecEntropy == InitEntropy /\ [][NextEntropy]_vars

----------------------------------------------------------------------------
(* Claims about the repair tool.                                           *)

CountOf(s, ch) == Cardinality({ i \in 1..Len(s) : s[i] = ch })

SpanBalanced(s) ==
  /\ s # <<>>
  /\ s[1] = "{"
  /\ s[Len(s)] = "}"
  /\ CountOf(s, "{") = CountOf(s, "}")

\* C1: at every step of the scan depth is not negative, and every span handed
\* to json.loads starts with '{', ends with '}' and holds as many '{' as '}'.
C1_BalanceInvariant ==
  /\ depth >= 0
  /\ \A i \in 1..Len(spans) : SpanBalanced(spans[i])

\* a fragment that is a well-formed record: it parses and has name and ability
FragRecord(f) ==
  LET r == json_loads(FragmentText(f)) IN r.ok /\ LooseGate(r.v)

\* a fragment that is a malformed candidate: it opens an object and does not
\* parse, balanced (a bad span) or not (a truncated fragment)
FragMalformed(f) ==
  Head(FragmentText(f)) = "{" /\ ~json_loads(FragmentText(f)).ok

RECURSIVE IsSubseq(_, _)
IsSubseq(a, b) ==
  IF a = <<>> THEN TRUE
  ELSE IF b = <<>> THEN FALSE
  ELSE IF Head(a) = Head(b) THEN IsSubseq(Tail(a), Tail(b))
  ELSE IsSubseq(a, Tail(b))

RECURSIVE RecordsAfterMalformed(_, _)
RecordsAfterMalformed(fs, seen) ==
  IF fs = <<>> THEN <<>>
  ELSE (IF seen /\ FragRecord(Head(fs))
          THEN <<json_loads(FragmentText(Head(fs))).v>> ELSE <<>>)
       \o RecordsAfterMalformed(Tail(fs), seen \/ FragMalformed(Head(fs)))

\* C2: in a text of records, malformed candidates and noise, every well-formed
\* record that comes after a malformed candidate is returned, in input order.
C2_ErrorContainment ==
  (/\ pc # "scan"
   /\ \A i \in 1..Len(frags) : Head(FragmentText(frags[i])) # "}")
  => IsSubseq(RecordsAfterMalformed(frags, FALSE), objects)

\* the constraints of the strict gate, in the order the claim gives them;
\* "non-empty" is what Python's truth test takes it to be
PrimitivesOk(o) ==
  LET ab == GetKey(o, "ability")
  IN /\ ab.t = "obj"
     /\ HasKey(ab, "primitives")
     /\ HasLen(GetKey(ab, "primitives"))
     /\ PyLen(GetKey(ab, "primitives")) = 2

FirstViolated(o) ==
  IF ~HasKey(o, "name") THEN "Missing field: name"
  ELSE IF ~HasKey(o, "description") THEN "Missing field: description"
  ELSE IF ~HasKey(o, "color") THEN "Missing field: color"
  ELSE IF ~HasKey(o, "ability") THEN "Missing field: ability"
  ELSE IF ~PrimitivesOk(o) THEN "Invalid primitives (must have exactly 2)"
  ELSE IF ~HasKey(GetKey(o, "ability"), "effects")
          \/ ~Truthy(GetKey(GetKey(o, "ability"), "effects"))
    THEN "Missing effects"
  ELSE IF ~HasKey(GetKey(o, "ability"), "cooldown") THEN "Missing cooldown"
  ELSE "OK"

\* C3: validate_ability never raises; it returns (False, reason) with the
\* first violated constraint, and (True, "OK") exactly when none is violated.
C3_RejectsNeverRaises ==
  pc = "returned" =>
    /\ ~verdict.raised
    /\ verdict.msg = FirstViolated(candidate)
    /\ verdict.ok <=> FirstViolated(candidate) = "OK"

Accepts(o) == validate_ability(o) = Verdict(TRUE, "OK")

\* what the claim says of a written record
StrictRecord(r) ==
  /\ \A f \in {"name", "description", "color", "ability"} : HasKey(r, f)
  /\ LET ab == GetKey(r, "ability")
     IN /\ ab.t = "obj"
        /\ HasKey(ab, "primitives")
        /\ HasLen(GetKey(ab, "primitives"))
        /\ PyLen(GetKey(ab, "primitives")) = 2
        /\ HasKey(ab, "effects")
        /\ HasLen(GetKey(ab, "effects"))
        /\ PyLen(GetKey(ab, "effects")) > 0
        /\ HasKey(ab, "cooldown")

\* C4: every record written has the four fields, two primitives, at least
\* one effect and a cooldown, and what is written is the extracted objects
\* that pass validate_ability, in extraction order.
C4_ValidatorCompleteness ==
  written =>
    /\ output = SelectSeq(objects, Accepts)
    /\ \A i \in 1..Len(output) : StrictRecord(output[i])

\* C5: a run that recovered no valid record ends with a non-zero exit status,
\* and the exit status is 0 only when a valid record was written.
C5_EmptyInputFails ==
  pc = "done" =>
    /\ SelectSeq(objects, Accepts) = <<>> => exit_status # 0
    /\ exit_status = 0 =>
         written /\ \E i \in 1..Len(output) : Accepts(output[i])

\* C5's case: objects were extracted, none is valid, the run has ended
C5_Witness ==
  /\ pc = "done"
  /\ objects # <<>>
  /\ SelectSeq(objects, Accepts) = <<>>
  /\ written
  /\ output = <<>>
  /\ exit_status = 1

----------------------------------------------------------------------------
(* Claims about the analysis tool.                                         *)

\* C6: without a fixed file the records are those extracted inline from the
\* raw corpus under the loose gate; with at least one record the run produces
\* the report and returns 0, with none it returns 1 and runs no analysis.
C6_FallbackReport ==
  (~written /\ pc = "done") =>
    /\ \A i \in 1..Len(data) : LooseGate(data[i])
    /\ IF data = <<>>
         THEN /\ ret = 1
              /\ ~elem_analysis.set /\ ~action_analysis.set
              /\ ~status_analysis.set /\ ~complexity_analysis.set
         ELSE /\ ret = 0
              /\ raised = ""
              /\ elem_analysis.set /\ action_analysis.set
              /\ status_analysis.set /\ complexity_analysis.set
              /\ overall_score >= 0

\* a collection of accepted records: each passes validate_ability and has two
\* primitives of the element alphabet
AcceptedCollection(d) ==
  \A i \in 1..Len(d) :
    /\ Accepts(d[i])
    /\ LET prims == GetKey(GetKey(d[i], "ability"), "primitives")
       IN /\ prims.t = "arr"
          /\ \A j \in 1..Len(prims.c) :
               /\ prims.c[j].t = "str"
               /\ \E n \in 1..Len(ElementNames) : ElementNames[n] = prims.c[j].a

\* the distinct pairs observed, order within a pair set aside
ObservedPairs(d) ==
  { { GetKey(GetKey(d[i], "ability"), "primitives").c[j].a : j \in 1..2 } :
      i \in 1..Len(d) }

\* C7: over accepted records coverage_percent is 100 * (distinct pairs) / 28
\* and lies in [0, 100]: no more than 28 distinct pairs are observed.
C7_CoverageBound ==
  (elem_analysis.set /\ AcceptedCollection(data)) =>
    /\ elem_analysis.coverage_percent =
         Percent(Cardinality(ObservedPairs(data)), 28)
    /\ elem_analysis.coverage_percent >= 0
    /\ elem_analysis.coverage_percent <= Hundred
    /\ elem_analysis.unique_combinations <= 28

\* C8: over a non-empty collection of accepted records the overall score and
\* each of the five scores averaged lie in [0, 100].
C8_ScoreRange ==
  (pc = "done" /\ ret = 0 /\ AcceptedCollection(data)) =>
    /\ Len(scores) = 5
    /\ \A i \in 1..Len(scores) : scores[i] >= 0 /\ scores[i] <= Hundred
    /\ overall_score >= 0 /\ overall_score <= Hundred

\* the script item at the end of a path of on_hit indices from item
RECURSIVE Descend(_, _)
Descend(script_item, hops) ==
  IF hops = <<>> THEN script_item
  ELSE Descend(OnHit(script_item)[Head(hops)], Tail(hops))

\* the script item at path <<entry, effect, script item, on_hit indices...>>
NodeAt(d, path) ==
  Descend(ScriptOf(EffectsOf(d[path[1]])[path[2]])[path[3]],
          SubSeq(path, 4, Len(path)))

TopLevelPaths(d) ==
  UNION { UNION { { <<e, k, j>> :
                      j \in 1..Len(ScriptOf(EffectsOf(d[e])[k])) } :
                  k \in 1..Len(EffectsOf(d[e])) } :
          e \in 1..Len(d) }

\* every script item of the collection, level by level
RECURSIVE PathsBelow(_, _)
PathsBelow(d, level) ==
  IF level = {} THEN {}
  ELSE level \cup
       PathsBelow(d, UNION { { Append(p, i) :
                                 i \in 1..Len(OnHit(NodeAt(d, p))) } :
                             p \in level })

AllPaths(d) == PathsBelow(d, TopLevelPaths(d))

\* p comes before q in a depth-first walk in child-list order
PathBefore(p, q) ==
  \/ Len(p) < Len(q) /\ p = SubSeq(q, 1, Len(p))
  \/ \E i \in 1..Min(Len(p), Len(q)) :
       /\ p[i] < q[i]
       /\ \A j \in 1..(i - 1) : p[j] = q[j]

IsApplyStatus(script_item) ==
  HasKey(script_item, "action")
  /\ GetKey(script_item, "action").a = "apply_status"

StatusPaths(d) == { p \in AllPaths(d) : IsApplyStatus(NodeAt(d, p)) }

\* C9: the walk visits every script item, top-level or under on_hit, exactly
\* once, depth-first in child-list order; distribution[s] is the number of
\* apply_status items anywhere whose status is s ("unknown" when it has none),
\* and unique_statuses the number of such values.
C9_WalkComplete ==
  status_analysis.set =>
    LET visited == status_analysis.visited
        statuses == { StatusOf(NodeAt(data, p)) : p \in StatusPaths(data) }
    IN /\ Len(visited) = Cardinality(AllPaths(data))
       /\ { visited[i] : i \in 1..Len(visited) } = AllPaths(data)
       /\ \A i \in 1..(Len(visited) - 1) : PathBefore(visited[i], visited[i + 1])
       /\ DOMAIN status_analysis.distribution = statuses
       /\ \A s \in statuses :
            status_analysis.distribution[s] =
              Cardinality({ p \in StatusPaths(data) :
                              StatusOf(NodeAt(data, p)) = s })
       /\ status_analysis.unique_statuses = Cardinality(statuses)

\* C9's case: an apply_status two on_hit edges down was counted, beside others
C9_Witness ==
  /\ status_analysis.set
  /\ \E i \in 1..Len(status_analysis.visited) :
       /\ Len(status_analysis.visited[i]) >= 5
       /\ IsApplyStatus(NodeAt(data, status_analysis.visited[i]))
  /\ status_analysis.unique_statuses >= 2
  /\ \E s \in DOMAIN status_analysis.distribution :
       status_analysis.distribution[s] >= 2

\* the on_hit edges from a top-level script item down to the item at path
EdgesTo(path) == Len(path) - 3

\* C10: the depth of each record is the largest number of on_hit edges from
\* one of its top-level script items to a descendant, 0 with no on_hit
\* children, and max_nesting_depth is the largest depth of the collection.
C10_MaxNestingDepth ==
  complexity_analysis.set =>
    /\ Len(complexity_analysis.nested_depths) = Len(data)
    /\ \A e \in 1..Len(data) :
         complexity_analysis.nested_depths[e] =
           MaxOf({0} \cup { EdgesTo(p) : p \in { q \in AllPaths(data) : q[1] = e } })
    /\ complexity_analysis.max_nesting_depth =
         MaxOf({0} \cup { EdgesTo(p) : p \in AllPaths(data) })

\* C10's case: a record whose one script item is an on_hit chain of depth 3,
\* beside a shallower record, reported as max_nesting_depth 3
C10_Witness ==
  /\ complexity_analysis.set
  /\ Len(data) = 2
  /\ TopScripts(data[1]) = <<Chain(3)>>
  /\ complexity_analysis.nested_depths[1] = 3
  /\ complexity_analysis.nested_depths[2] = 1
  /\ complexity_analysis.max_nesting_depth = 3

\* the keys of the distribution with a count above 0
NonZeroKeys == { i \in 1..Len(count_values) : count_values[i] > 0 }

\* every key has the same count, above 0
EqualCounts ==
  \A i \in 1..Len(count_values) :
    count_values[i] > 0 /\ count_values[i] = count_values[1]

\* C11: the entropy E of a distribution with K keys of non-zero count has
\* 0 <= E <= log2(K); it is 0.0 with no key and with one key, 1.0 with two
\* keys of equal counts; the evenness is 0 with K <= 1 and 100 with K >= 2
\* keys of equal counts.
C11_EntropyBounds ==
  LET K == Cardinality(NonZeroKeys)
  IN /\ pc \in {"evenness", "done"} =>
          /\ FCmp(entropy_bits, FZero) >= 0
          /\ K >= 1 => FCmp(entropy_bits, Log2OfInt[K]) <= 0
          /\ K <= 1 => entropy_bits = FZero
          /\ (K = 2 /\ EqualCounts) => entropy_bits = FromInt(1)
     /\ pc = "done" =>
          /\ K <= 1 => evenness = FZero
          /\ (K >= 2 /\ EqualCounts) => evenness = FromInt(100)

\* a turn of extract_json_objects leaves the locals the inline scanner of the
\* analysis tool leaves from the same locals on the same character, and does
\* not end the loop with an exception
SameTurn ==
  (pc = "scan" /\ pos' = pos + 1) =>
    LET st == InlineStep([depth |-> depth, current_obj |-> current_obj,
                          data |-> objects, spans |-> spans], text[pos])
    IN /\ depth' = st.depth
       /\ current_obj' = st.current_obj
       /\ spans' = st.spans
       /\ objects' = st.data
       /\ raised' = ""

\* C12: on every text the inline scanner of the analysis tool and
\* extract_json_objects hand the same spans to the parser, in order, and
\* accept the same records, in order: from the same start each turn of the
\* two loops leaves the same locals, and after each character in_object is
\* true exactly when depth > 0.
C12_ExtractorsAgree ==
  /\ [](pc = "scan" => (in_object <=> depth > 0))
  /\ [][SameTurn]_vars

====
